---- MODULE Spec2Model ----
(***************************************************************************)
(* Reconciliation plus eviction of B-tree pages: src/btree/rec_evict.c.    *)
(*                                                                         *)
(* The tree is a fixed skeleton of reference slots (WT_REF); every slot is *)
(* DISK, READING, MEM or LOCKED and, when in memory, points to a page.     *)
(* An evicting session runs __wt_rec_evict one memory step at a time, so   *)
(* that other evictors and hazard-protocol readers interleave with it.     *)
(***************************************************************************)
EXTENDS Integers, Sequences, FiniteSets, TLC

\* ------------------------------------------------------------------ shape

\* Pages of the tree skeleton; the slot (WT_REF) that leads to skeleton
\* page p has the same number p.  Slot 1 is btree->root_page.
TreePages == 1 .. 5

\* How many further times the reconciler may split a freshly split root.
MaxSplit == 2

\* Pages the reconciler creates for a split (mod->u.write_split).
FreshPages == 6 .. (7 + MaxSplit)

Pages == TreePages \cup FreshPages

Refs == TreePages

NULL == 0

RootRef == 1

\* WT_ROW_REF_FOREACH / WT_COL_REF_FOREACH: the slots of an internal page,
\* in the order of the array.
Children(p) ==
    CASE p = 1 -> <<2, 3>>
      [] p = 2 -> <<4, 5>>
      [] OTHER -> <<>>

\* page->type: skeleton pages 1 and 2 and every split product are internal.
PageType(p) == IF p \in {1, 2} \cup FreshPages THEN "INT" ELSE "LEAF"

\* The read generation __wt_cache_read_gen hands out.
wt_cache_read_gen == 1

\* WT_PAGE_IS_ROOT
WT_PAGE_IS_ROOT(p) == p = 1

WT_ADDR_INVALID == 0

\* Evicting sessions, and the session standing for threads outside the model
\* that hold a slot LOCKED when the call starts.  (A candidate whose own slot
\* is LOCKED when the call starts was locked for the calling session: "we may
\* already have it locked", line 653.)
Sessions == {1, 2}
Outside == Cardinality(Sessions) + 1

\* Readers, each with one slot of the hazard table conn->hazard.
Readers == {1, 2}
Slots == 1 .. 2

WT_PAGE_REC_MASK == {"REC_EMPTY", "REC_REPLACE", "REC_SPLIT", "REC_SPLIT_MERGE"}
PageFlags == WT_PAGE_REC_MASK \cup {"FORCE_EVICT"}
CallFlags == {"WT_REC_SINGLE", "WT_REC_WAIT"}

VARIABLES
    ref,                \* slot -> [state, page, addr, size]
    pg,                 \* page -> [flags, modified, read_gen, mod]
    conn_hazard,        \* conn->hazard: slot -> page or NULL
    cache_hazard,       \* cache->hazard: the snapshot array
    cache_hazard_elem,  \* cache->hazard_elem
    ev,                 \* session -> the frame of its __wt_rec_evict call
    rd,                 \* reader -> [pc, ref, page]
    discards,           \* page -> how many times __wt_page_out ran on it
    locker,             \* slot -> the session whose LOCKED store stands
    pre,                \* session -> the tree when its call started
    nwrites,            \* how many times the reconciler has written
    actor               \* the session that took the last step

vars == <<ref, pg, conn_hazard, cache_hazard, cache_hazard_elem, ev, rd,
          discards, locker, pre, nwrites, actor>>

\* ---------------------------------------------------------------- helpers

F_ISSET(p, mask) == pg[p].flags \cap mask

\* __wt_page_is_modified
wt_page_is_modified(p) == pg[p].modified

IsInternal(p) == PageType(p) = "INT"

\* The slots of the tree: the root slot and the slots of every page that a
\* slot of the tree holds in memory.
RECURSIVE SlotsBelow(_)
SlotsBelow(r) ==
    {r} \cup
    (IF ref[r].state \in {"MEM", "LOCKED"} /\ ref[r].page \in TreePages
     THEN UNION {SlotsBelow(Children(ref[r].page)[k]) :
                 k \in 1 .. Len(Children(ref[r].page))}
     ELSE {})

TreeSlots == SlotsBelow(RootRef)

\* ------------------------------------------------------------------- Init

\* What a slot and its page look like when a call starts.
Kind(st, fl, m) == [st |-> st, fl |-> fl, mod |-> m]

RecChoices == {{}} \cup {{f} : f \in WT_PAGE_REC_MASK}

OffKinds == {Kind(st, {}, FALSE) : st \in {"DISK", "READING", "LOCKED"}}

MemKinds == {Kind("MEM", f, m) : f \in RecChoices, m \in BOOLEAN}

\* The slots below the top level of the candidate's subtree draw from a
\* smaller menu: one kind for each path of the reviewer.
DeepKinds ==
    {Kind("DISK", {}, FALSE), Kind("LOCKED", {}, FALSE),
     Kind("MEM", {}, FALSE), Kind("MEM", {"REC_SPLIT"}, FALSE),
     Kind("MEM", {"REC_SPLIT"}, TRUE), Kind("MEM", {"REC_SPLIT_MERGE"}, TRUE)}

Parent(p) == CASE p \in {2, 3} -> 1 [] p \in {4, 5} -> 2 [] OTHER -> NULL

RECURSIVE Ancestors(_)
Ancestors(p) ==
    IF Parent(p) = NULL THEN {} ELSE {Parent(p)} \cup Ancestors(Parent(p))

Subtree(c) == {p \in TreePages : c \in Ancestors(p)}

\* The address and size a slot had before the call.
OldAddr(r) == 10 + r
OldSize(r) == 100 + r

NoMod == [addr |-> WT_ADDR_INVALID, size |-> 0, split |-> NULL]

\* A page that was reconciled before the call carries the outcome in modify.
OldMod(p, fl) ==
    IF "REC_REPLACE" \in fl THEN [addr |-> 20 + p, size |-> 200 + p, split |-> NULL]
    ELSE IF "REC_SPLIT" \in fl THEN [addr |-> WT_ADDR_INVALID, size |-> 0, split |-> 6]
    ELSE NoMod

MkRef(r, k) ==
    [state |-> k.st,
     page |-> IF k.st \in {"MEM", "LOCKED"} THEN r ELSE NULL,
     addr |-> OldAddr(r), size |-> OldSize(r)]

MkPage(p, k) ==
    [flags |-> k.fl, modified |-> k.mod, read_gen |-> 0, mod |-> OldMod(p, k.fl)]

\* A page the reconciler made by splitting another page.
FreshPage ==
    [flags |-> {"REC_SPLIT_MERGE"}, modified |-> FALSE, read_gen |-> 0, mod |-> NoMod]

NewFrame(c, fl) ==
    [pc |-> "entry", page |-> c, flags |-> fl, ret |-> "NONE", last_page |-> NULL,
     stk |-> <<>>, ref |-> NULL, cpage |-> NULL, cont |-> "none", i |-> 0, j |-> 0,
     next |-> NULL, nsplit |-> 0, pub |-> "NONE", held |-> {}, took |-> {}, gone |-> <<>>]

IdleFrame == [NewFrame(NULL, {}) EXCEPT !.pc = "idle"]

\* The kinds a scenario lets each slot draw from: the candidate from cand,
\* its leaf children from top, the rest of its subtree from deep; its
\* ancestors are plain in-memory pages and what the call never visits is on
\* disk.
Menus(c, cand, top, deep) ==
    [p \in TreePages |->
        IF p = c THEN cand
        ELSE IF p \in Ancestors(c) THEN {Kind("MEM", {}, FALSE)}
        ELSE IF p \notin Subtree(c) THEN {Kind("DISK", {}, FALSE)}
        ELSE IF Parent(p) = c /\ PageType(p) = "LEAF" THEN top
        ELSE deep]

\* A child the reviewer would descend into.
Descends(kd) ==
    /\ kd.st = "MEM"
    /\ \/ "REC_SPLIT_MERGE" \in kd.fl
       \/ kd.fl \cap {"REC_SPLIT", "REC_EMPTY"} # {} /\ ~kd.mod

\* The slots of a page the call never descends into are on disk.
Canonical(c, k) ==
    \A p \in Subtree(c) :
        (Parent(p) # c /\ ~Descends(k[Parent(p)])) => k[p] = Kind("DISK", {}, FALSE)

KindMaps(c, cand, top, deep) ==
    LET M == Menus(c, cand, top, deep)
    IN  {k \in {<<k1, k2, k3, k4, k5>> :
                   k1 \in M[1], k2 \in M[2], k3 \in M[3], k4 \in M[4], k5 \in M[5]} :
            Canonical(c, k)}

InitTree(c, k) ==
    /\ ref = [r \in Refs |-> MkRef(r, k[r])]
    /\ pg = [p \in Pages |-> IF p \in TreePages THEN MkPage(p, k[p]) ELSE FreshPage]
    /\ locker = [r \in Refs |-> IF k[r].st # "LOCKED" THEN NULL
                                ELSE IF r = c THEN 1 ELSE Outside]
    /\ discards = [p \in Pages |-> 0]
    /\ cache_hazard = [x \in Slots |-> NULL]
    /\ cache_hazard_elem = 0
    /\ nwrites = 0
    /\ actor = NULL

Snapshot == [ref |-> ref, pg |-> pg, hazard |-> conn_hazard]

IdleReader == [pc |-> "idle", ref |-> NULL, page |-> NULL]

\* ------------------------------------------------- __wt_rec_evict, stepwise

\* page->parent_ref: the slot that holds the page.
ParentRef(p) ==
    IF p \in TreePages THEN p ELSE CHOOSE r \in Refs : ref[r].page = p

LF_ISSET(s, flag) == flag \in ev[s].flags

Push(stk, p) == Append(stk, [parent |-> p, i |-> 1])

Pop(stk) == SubSeq(stk, 1, Len(stk) - 1)

Top(stk) == stk[Len(stk)]

\* The walkers' "for each entry": move the innermost loop to its next slot.
Advance(stk) == [stk EXCEPT ![Len(stk)].i = @ + 1]

\* A store of a slot's state by session s.
StoreState(s, r, st) ==
    /\ ref' = [ref EXCEPT ![r].state = st]
    /\ locker' = [locker EXCEPT ![r] = IF st = "LOCKED" THEN s ELSE NULL]

\* The evict call returns.
Return(f, ret) == [f EXCEPT !.pc = "done", !.ret = ret, !.stk = <<>>]

\* The switch on page->type that starts a subtree walk.
StartWalk(f, p, pc, leafpc) ==
    IF IsInternal(p)
    THEN [f EXCEPT !.pc = pc, !.stk = Push(<<>>, p)]
    ELSE [f EXCEPT !.pc = leafpc, !.stk = <<>>]

\* A wrong flag in the test of line 57.
IsSplitMergeWrongFlag(p) == F_ISSET(p, {"REC_SPLIT"}) # {}

\* __wt_rec_evict, line 57: the page is a merge-split page.
IsSplitMerge(p) == F_ISSET(p, {"REC_SPLIT_MERGE"}) # {}

\* __wt_rec_evict up to the first memory access of __rec_review.
EvictEntry(s) ==
    LET f == ev[s]
        p == f.page
        fl == IF "FORCE_EVICT" \in pg[p].flags
              THEN f.flags \cup {"WT_REC_WAIT"} ELSE f.flags
    IN  /\ f.pc = "entry"
        /\ actor' = s
        /\ IF IsSplitMerge(p)
           THEN /\ pg' = [pg EXCEPT ![p].read_gen = wt_cache_read_gen]
                /\ StoreState(s, ParentRef(p), "MEM")
                /\ ev' = [ev EXCEPT ![s] = Return(f, "OK")]
           ELSE /\ pg' = [pg EXCEPT ![p].flags = @ \ {"FORCE_EVICT"}]
                /\ UNCHANGED <<ref, locker>>
                /\ ev' = [ev EXCEPT ![s] =
                      IF "WT_REC_SINGLE" \in fl
                      THEN StartWalk([f EXCEPT !.flags = fl], p, "walk", "write")
                      ELSE [f EXCEPT !.flags = fl, !.pc = "hx_lock",
                                     !.ref = ParentRef(p), !.cont = "root"]]
        /\ pre' = [pre EXCEPT ![s] = Snapshot]
        /\ UNCHANGED <<conn_hazard, cache_hazard, cache_hazard_elem, rd, discards,
                       nwrites>>

\* ------------------------------------------------------- __hazard_exclusive

NSlots == Cardinality(Slots)

\* __hazard_qsort_cmp: the order of page addresses.
hazard_qsort_cmp(a, b) == IF a > b THEN 1 ELSE IF a < b THEN 0 - 1 ELSE 0

RECURSIVE Insert(_, _)
Insert(sorted, x) ==
    IF sorted = <<>> THEN <<x>>
    ELSE IF hazard_qsort_cmp(x, Head(sorted)) <= 0 THEN <<x>> \o sorted
    ELSE <<Head(sorted)>> \o Insert(Tail(sorted), x)

RECURSIVE InsertionSort(_)
InsertionSort(q) == IF q = <<>> THEN <<>> ELSE Insert(InsertionSort(Tail(q)), Head(q))

\* qsort(cache->hazard, elem, ...): the first elem entries, in order.
qsort(arr, elem) ==
    LET sorted == InsertionSort([k \in 1 .. elem |-> arr[k]])
    IN  [k \in DOMAIN arr |-> IF k <= elem THEN sorted[k] ELSE arr[k]]

\* The comparison with its two results exchanged.
hazard_bsearch_cmp_swapped(search, entry) ==
    IF search > entry THEN 0 - 1 ELSE IF search < entry THEN 1 ELSE 0

\* __hazard_bsearch_cmp
hazard_bsearch_cmp(search, entry) ==
    IF search > entry THEN 1 ELSE IF search < entry THEN 0 - 1 ELSE 0

\* bsearch over arr[lo+1 .. hi], as the C library halves the range.
RECURSIVE bsearch(_, _, _, _)
bsearch(key, arr, lo, hi) ==
    IF lo >= hi THEN FALSE
    ELSE LET mid == (lo + hi) \div 2
             c == hazard_bsearch_cmp(key, arr[mid + 1])
         IN  IF c = 0 THEN TRUE
             ELSE IF c < 0 THEN bsearch(key, arr, lo, mid)
             ELSE bsearch(key, arr, mid + 1, hi)

\* __hazard_exclusive, line 665: the LOCKED store, whatever the slot holds.
HazardLock(s) ==
    LET f == ev[s]
    IN  /\ f.pc = "hx_lock"
        /\ actor' = s
        /\ StoreState(s, f.ref, "LOCKED")
        /\ ev' = [ev EXCEPT ![s] = [f EXCEPT !.pc = "hx_copy", !.i = 0, !.j = 0]]
        /\ UNCHANGED <<pg, conn_hazard, cache_hazard, cache_hazard_elem, rd,
                       discards, pre, nwrites>>

\* WT_ASSERT(state == MEM || state == LOCKED) of line 654 in a diagnostic
\* build: the process aborts.  (Other builds go on to the store.)
HazardAssert(s) ==
    LET f == ev[s]
    IN  /\ f.pc = "hx_lock"
        /\ ref[f.ref].state \notin {"MEM", "LOCKED"}
        /\ actor' = s
        /\ ev' = [ev EXCEPT ![s] = [f EXCEPT !.pc = "crash", !.ret = "ABORT"]]
        /\ UNCHANGED <<ref, pg, conn_hazard, cache_hazard, cache_hazard_elem, rd,
                       discards, locker, pre, nwrites>>

\* __hazard_copy, one turn of its loop: slot j of conn->hazard.
HazardCopy(s) ==
    LET f == ev[s]
    IN  /\ f.pc = "hx_copy"
        /\ f.j < NSlots
        /\ actor' = s
        /\ IF conn_hazard[f.j + 1] = NULL
           THEN /\ ev' = [ev EXCEPT ![s] = [f EXCEPT !.j = @ + 1]]
                /\ UNCHANGED cache_hazard
           ELSE /\ cache_hazard' = [cache_hazard EXCEPT ![f.i + 1] = conn_hazard[f.j + 1]]
                /\ ev' = [ev EXCEPT ![s] = [f EXCEPT !.j = @ + 1, !.i = @ + 1]]
        /\ UNCHANGED <<ref, pg, conn_hazard, cache_hazard_elem, rd, discards, locker,
                       pre, nwrites>>

\* __hazard_copy after its loop: sort the copy and set its length.
HazardSort(s) ==
    LET f == ev[s]
    IN  /\ f.pc = "hx_copy"
        /\ f.j = NSlots
        /\ actor' = s
        /\ cache_hazard' = qsort(cache_hazard, f.i)
        /\ cache_hazard_elem' = f.i
        /\ ev' = [ev EXCEPT ![s] = [f EXCEPT !.pc = "hx_search"]]
        /\ UNCHANGED <<ref, pg, conn_hazard, rd, discards, locker, pre, nwrites>>

\* A careful test that lets a dirty split or empty page through.
MergeableWhenDirty(p) ==
    F_ISSET(p, {"REC_SPLIT_MERGE", "REC_SPLIT", "REC_EMPTY"}) # {}

\* __rec_sub_excl_page, lines 547-552: the careful test.
Mergeable(p) ==
    \/ F_ISSET(p, {"REC_SPLIT_MERGE"}) # {}
    \/ /\ F_ISSET(p, {"REC_SPLIT", "REC_EMPTY"}) # {}
       /\ ~wt_page_is_modified(p)

\* __rec_sub_excl_page, lines 528-530: the cheap test.
MayMerge(p) == F_ISSET(p, {"REC_EMPTY", "REC_SPLIT", "REC_SPLIT_MERGE"}) # {}

\* The walker after __rec_sub_excl_page returned 0 for child page cp:
\* record it as the last page locked and recurse into an internal page.
Accept(f, cp) ==
    [f EXCEPT !.pc = "walk", !.last_page = cp,
              !.stk = IF IsInternal(cp) THEN Push(Advance(@), cp) ELSE Advance(@)]

\* __rec_review, lines 333-337: the walk failed with ret.
ReviewFailed(f, ret) == [f EXCEPT !.pc = "clear_root", !.ret = ret, !.stk = <<>>]

\* An acquirer that takes a new copy although the page was not found.
AcquiredSpins(f) == [f EXCEPT !.pc = "hx_copy", !.i = 0, !.j = 0]

\* What follows a hazard_exclusive that returned 0.
Acquired(f) ==
    LET g == [f EXCEPT !.held = @ \cup {f.ref}, !.took = @ \cup {f.ref}]
    IN  IF f.cont = "root"
        THEN StartWalk([g EXCEPT !.last_page = f.page], f.page, "walk", "write")
        ELSE IF Mergeable(f.cpage) THEN Accept(g, f.cpage)
        ELSE ReviewFailed(g, "1")

\* What follows a hazard_exclusive that returned 1.
NotAcquired(f) ==
    IF f.cont = "root" THEN Return(f, "1") ELSE ReviewFailed(f, "1")

\* A forced acquirer that gives up instead of going round.
RetryGivesUp(f) == NotAcquired(f)

\* __hazard_exclusive, lines 681-684: yield and take a new copy.
Retry(f) == [f EXCEPT !.pc = "hx_copy", !.i = 0, !.j = 0]

\* __hazard_exclusive, lines 671-692: search the copy for ref->page.
HazardSearch(s) ==
    LET f == ev[s]
        found == bsearch(ref[f.ref].page, cache_hazard, 0, cache_hazard_elem)
    IN  /\ f.pc = "hx_search"
        /\ actor' = s
        /\ IF ~found
           THEN /\ ev' = [ev EXCEPT ![s] = Acquired(f)]
                /\ UNCHANGED <<ref, locker>>
           ELSE IF LF_ISSET(s, "WT_REC_WAIT")
           THEN /\ ev' = [ev EXCEPT ![s] = Retry(f)]
                /\ UNCHANGED <<ref, locker>>
           ELSE /\ StoreState(s, f.ref, "MEM")
                /\ ev' = [ev EXCEPT ![s] = NotAcquired(f)]
        /\ UNCHANGED <<pg, conn_hazard, cache_hazard, cache_hazard_elem, rd, discards,
                       pre, nwrites>>

\* ------------------------------------------- __rec_sub_excl_row / _col

\* One turn of the walker's loop over the slots of an internal page, up to
\* the call of __hazard_exclusive in __rec_sub_excl_page.
ReviewSlot(s) ==
    LET f == ev[s]
        top == Top(f.stk)
        kids == Children(top.parent)
        r == kids[top.i]
        cp == ref[r].page
    IN  /\ f.pc = "walk"
        /\ actor' = s
        /\ ev' = [ev EXCEPT ![s] =
              IF top.i > Len(kids)
              THEN IF Len(f.stk) = 1
                   THEN [f EXCEPT !.pc = "write", !.stk = <<>>]
                   ELSE [f EXCEPT !.stk = Pop(@)]
              ELSE IF ref[r].state = "DISK" THEN [f EXCEPT !.stk = Advance(@)]
              ELSE IF ref[r].state \in {"LOCKED", "READING"}
                   THEN ReviewFailed(f, "WT_ERROR")
              ELSE IF cp = NULL THEN [f EXCEPT !.pc = "crash", !.ret = "SIGSEGV"]
              ELSE IF ~MayMerge(cp) THEN ReviewFailed(f, "1")
              ELSE IF LF_ISSET(s, "WT_REC_SINGLE")
                   THEN IF Mergeable(cp) THEN Accept(f, cp) ELSE ReviewFailed(f, "1")
              ELSE [f EXCEPT !.pc = "hx_lock", !.ref = r, !.cpage = cp,
                             !.cont = "child"]]
        /\ UNCHANGED <<ref, pg, conn_hazard, cache_hazard, cache_hazard_elem, rd,
                       discards, locker, pre, nwrites>>

\* ----------------------------------------------------- __rec_sub_excl_clear

\* __rec_sub_excl_clear, lines 348-371: the candidate's own slot.
ClearRoot(s) ==
    LET f == ev[s]
        r == ParentRef(f.page)
    IN  /\ f.pc = "clear_root"
        /\ actor' = s
        /\ IF LF_ISSET(s, "WT_REC_SINGLE")
           THEN /\ ev' = [ev EXCEPT ![s] = Return(f, f.ret)]
                /\ UNCHANGED <<ref, locker>>
           ELSE /\ StoreState(s, r, "MEM")
                /\ ev' = [ev EXCEPT ![s] =
                      IF f.page = f.last_page
                      THEN Return([f EXCEPT !.held = @ \ {r}], f.ret)
                      ELSE StartWalk([f EXCEPT !.held = @ \ {r}], f.page,
                                     "clear", "clear")]
        /\ UNCHANGED <<pg, conn_hazard, cache_hazard, cache_hazard_elem, rd, discards,
                       pre, nwrites>>

\* __rec_sub_excl_row_clear / _col_clear: one turn of the loop.
ClearSlot(s) ==
    LET f == ev[s]
        top == Top(f.stk)
        kids == Children(top.parent)
        r == kids[top.i]
        cp == ref[r].page
    IN  /\ f.pc = "clear"
        /\ actor' = s
        /\ IF f.stk = <<>>
           THEN /\ ev' = [ev EXCEPT ![s] = Return(f, f.ret)]
                /\ UNCHANGED <<ref, locker>>
           ELSE IF top.i > Len(kids)
           THEN /\ ev' = [ev EXCEPT ![s] = [f EXCEPT !.stk = Pop(@)]]
                /\ UNCHANGED <<ref, locker>>
           ELSE /\ StoreState(s, r, "MEM")
                /\ ev' = [ev EXCEPT ![s] =
                      LET g == [f EXCEPT !.held = @ \ {r}]
                      IN  IF cp = f.last_page THEN Return(g, f.ret)
                          ELSE IF cp = NULL
                               THEN [g EXCEPT !.pc = "crash", !.ret = "SIGSEGV"]
                          ELSE IF IsInternal(cp)
                               THEN [g EXCEPT !.stk = Push(Advance(@), cp)]
                          ELSE [g EXCEPT !.stk = Advance(@)]]
        /\ UNCHANGED <<pg, conn_hazard, cache_hazard, cache_hazard_elem, rd, discards,
                       pre, nwrites>>

\* The slot the unlocker is about to assert on, if any.
ClearTarget(f) ==
    IF f.pc = "clear_root" /\ "WT_REC_SINGLE" \notin f.flags THEN ParentRef(f.page)
    ELSE IF f.pc = "clear" /\ f.stk # <<>>
            /\ Top(f.stk).i <= Len(Children(Top(f.stk).parent))
    THEN Children(Top(f.stk).parent)[Top(f.stk).i]
    ELSE NULL

\* WT_ASSERT(state == WT_REF_LOCKED) of the unlocker in a diagnostic build:
\* the process aborts.  (Other builds compile the assertion out and go on.)
ClearAssert(s) ==
    LET f == ev[s]
    IN  /\ ClearTarget(f) # NULL
        /\ ref[ClearTarget(f)].state # "LOCKED"
        /\ actor' = s
        /\ ev' = [ev EXCEPT ![s] = [f EXCEPT !.pc = "crash", !.ret = "ABORT"]]
        /\ UNCHANGED <<ref, pg, conn_hazard, cache_hazard, cache_hazard_elem, rd,
                       discards, locker, pre, nwrites>>

\* ------------------------------------------------------------ the reconciler

\* What __wt_rec_write can stamp on a page.
Outcomes == {"REC_EMPTY", "REC_REPLACE", "REC_SPLIT"}

\* The page after the n-th write of the run reconciled it with outcome o.
Reconciled(p, o, n) ==
    [flags |-> (pg[p].flags \ WT_PAGE_REC_MASK) \cup {o},
     modified |-> FALSE,
     read_gen |-> pg[p].read_gen,
     mod |-> IF o = "REC_REPLACE" THEN [addr |-> 30 + n, size |-> 300 + n, split |-> NULL]
             ELSE IF o = "REC_SPLIT"
                  THEN [addr |-> WT_ADDR_INVALID, size |-> 0, split |-> 6 + n]
             ELSE NoMod]

\* __wt_rec_evict, lines 82-84: write the page if it is dirty.
WritePage(s) ==
    LET f == ev[s]
        p == f.page
    IN  /\ f.pc = "write"
        /\ actor' = s
        /\ IF ~wt_page_is_modified(p)
           THEN /\ ev' = [ev EXCEPT ![s] = [f EXCEPT !.pc = "update"]]
                /\ UNCHANGED <<pg, nwrites>>
           ELSE \/ /\ ev' = [ev EXCEPT ![s] =
                         [f EXCEPT !.pc = "clear_root", !.ret = "EIO",
                                   !.last_page = NULL]]
                   /\ UNCHANGED <<pg, nwrites>>
                \/ \E o \in Outcomes :
                      /\ nwrites' = nwrites + 1
                      /\ pg' = [pg EXCEPT ![p] = Reconciled(p, o, nwrites + 1)]
                      /\ ev' = [ev EXCEPT ![s] = [f EXCEPT !.pc = "update"]]
        /\ UNCHANGED <<ref, conn_hazard, cache_hazard, cache_hazard_elem, rd, discards,
                       locker, pre>>

\* ------------------------------------------------------ the parent's slot

\* The clean update without its store of NULL.
CleanFieldsKeepPage(r) == ref[r]

\* __rec_parent_clean_update, line 112.
CleanFields(r) == [ref[r] EXCEPT !.page = NULL]

\* An update that stores the state without having written the fields.
ParentFieldsUnwritten(p) == ref[ParentRef(p)]

\* __rec_parent_clean_update and __rec_parent_dirty_update up to the store
\* of the slot's state: the slot's other fields.
ParentFields(p) ==
    LET r == ParentRef(p)
        m == pg[p].mod
        rec == F_ISSET(p, WT_PAGE_REC_MASK)
    IN  IF rec = {} THEN CleanFields(r)
        ELSE IF rec = {"REC_EMPTY"}
             THEN [ref[r] EXCEPT !.addr = WT_ADDR_INVALID, !.page = NULL]
        ELSE IF rec = {"REC_REPLACE"}
             THEN [ref[r] EXCEPT !.addr = m.addr, !.size = m.size, !.page = NULL]
        ELSE [ref[r] EXCEPT !.page = m.split]

\* Every update publishing DISK, the split of a non-root page too.
ParentStateAlwaysDisk(p) == "DISK"

\* The state each update publishes.
ParentState(p) ==
    IF F_ISSET(p, WT_PAGE_REC_MASK) = {"REC_SPLIT"} /\ ~WT_PAGE_IS_ROOT(p)
    THEN "MEM" ELSE "DISK"

\* __wt_rec_evict, lines 87-93, and the parent update before its publish.
ParentUpdate(s) ==
    LET f == ev[s]
        p == f.page
        rec == F_ISSET(p, WT_PAGE_REC_MASK)
    IN  /\ f.pc = "update"
        /\ actor' = s
        /\ IF rec = {"REC_EMPTY"} /\ ~WT_PAGE_IS_ROOT(p)
           THEN /\ ev' = [ev EXCEPT ![s] =
                      [f EXCEPT !.pc = "clear_root", !.ret = "OK", !.last_page = NULL]]
                /\ UNCHANGED ref
           ELSE IF rec = {"REC_SPLIT"} /\ WT_PAGE_IS_ROOT(p)
           THEN /\ ev' = [ev EXCEPT ![s] =
                      [f EXCEPT !.pc = "root_split", !.next = pg[p].mod.split]]
                /\ UNCHANGED ref
           ELSE /\ ref' = [ref EXCEPT ![ParentRef(p)] = ParentFields(p)]
                /\ ev' = [ev EXCEPT ![s] =
                      [f EXCEPT !.pc = "publish", !.pub = ParentState(p),
                                !.cont = IF rec = {} THEN "page" ELSE "sub"]]
        /\ UNCHANGED <<pg, conn_hazard, cache_hazard, cache_hazard_elem, rd, discards,
                       locker, pre, nwrites>>

\* The store of the slot's state (WT_PUBLISH in the dirty update).
Publish(s) ==
    LET f == ev[s]
        r == ParentRef(f.page)
    IN  /\ f.pc = "publish"
        /\ actor' = s
        /\ StoreState(s, r, f.pub)
        /\ ev' = [ev EXCEPT ![s] =
              IF f.cont = "page" THEN [f EXCEPT !.pc = "discard", !.held = @ \ {r}]
              ELSE StartWalk([f EXCEPT !.held = @ \ {r}], f.page,
                             "sub_discard", "discard")]
        /\ UNCHANGED <<pg, conn_hazard, cache_hazard, cache_hazard_elem, rd, discards,
                       pre, nwrites>>

\* ---------------------------------------------------------- __rec_root_split

\* The root's fields without the store of the address.
RootFieldsStaleAddr(m) ==
    [ref[RootRef] EXCEPT !.size = m.size, !.page = NULL]

\* btree->root_page after a 1-for-1 swap of the new root: lines 255-257.
RootFields(m) ==
    [ref[RootRef] EXCEPT !.addr = m.addr, !.size = m.size, !.page = NULL]

\* A loop that goes round on the page it just wrote.
NextRootSamePage(q, o, n) ==
    IF o = "REC_REPLACE" THEN NULL ELSE q

\* The loop's next page: none after a swap, the split page after a split
\* (lines 258 and 261).
NextRoot(q, o, n) ==
    IF o = "REC_REPLACE" THEN NULL ELSE Reconciled(q, o, n).mod.split

\* One turn of the loop up to its discard: mark the new root modified, clear
\* its flags, write it, and act on the outcome.
RootSplitWrite(s) ==
    LET f == ev[s]
        q == f.next
        n == nwrites + 1
    IN  /\ f.pc = "root_split"
        /\ actor' = s
        /\ \/ /\ ev' = [ev EXCEPT ![s] = Return(f, "EIO")]
              /\ pg' = [pg EXCEPT ![q].modified = TRUE,
                                  ![q].flags = @ \ WT_PAGE_REC_MASK]
              /\ UNCHANGED <<ref, nwrites>>
           \/ \E o \in Outcomes :
                 /\ o = "REC_SPLIT" => f.nsplit < MaxSplit
                 /\ nwrites' = n
                 /\ pg' = [pg EXCEPT ![q] = Reconciled(q, o, n)]
                 /\ IF o = "REC_REPLACE"
                    THEN /\ ref' = [ref EXCEPT ![RootRef] =
                                       RootFields(Reconciled(q, o, n).mod)]
                         /\ ev' = [ev EXCEPT ![s] =
                               [f EXCEPT !.pc = "root_discard", !.cpage = q,
                                         !.next = NextRoot(q, o, n)]]
                    ELSE IF o = "REC_SPLIT"
                    THEN /\ ev' = [ev EXCEPT ![s] =
                               [f EXCEPT !.pc = "root_discard", !.cpage = q,
                                         !.next = NextRoot(q, o, n),
                                         !.nsplit = @ + 1]]
                         /\ UNCHANGED ref
                    ELSE /\ ev' = [ev EXCEPT ![s] = Return(f, "ILLEGAL_VALUE")]
                         /\ UNCHANGED ref
        /\ UNCHANGED <<conn_hazard, cache_hazard, cache_hazard_elem, rd, discards,
                       locker, pre>>

\* ------------------------------------------------------- __rec_discard_page

\* page->modify != NULL: the page has tracked objects to resolve.
HasModify(p) == pg[p].modified \/ F_ISSET(p, WT_PAGE_REC_MASK) # {}

\* Whether __rec_discard_page can succeed, can fail, or both.
DiscardResults(p) == IF HasModify(p) THEN {TRUE, FALSE} ELSE {TRUE}

\* __wt_page_out ran on page q.
Discarded(f, q) == [f EXCEPT !.gone = Append(@, q)]

\* The discard that ends a turn of the root split's loop.
RootSplitDiscard(s) ==
    LET f == ev[s]
        q == f.cpage
    IN  /\ f.pc = "root_discard"
        /\ actor' = s
        /\ \E ok \in DiscardResults(q) :
              IF ok
              THEN /\ discards' = [discards EXCEPT ![q] = @ + 1]
                   /\ ev' = [ev EXCEPT ![s] =
                         IF f.next = NULL
                         THEN [Discarded(f, q) EXCEPT !.pc = "publish", !.pub = "DISK",
                                                      !.cont = "sub"]
                         ELSE [Discarded(f, q) EXCEPT !.pc = "root_split"]]
              ELSE /\ ev' = [ev EXCEPT ![s] = Return(f, "EIO")]
                   /\ UNCHANGED discards
        /\ UNCHANGED <<ref, pg, conn_hazard, cache_hazard, cache_hazard_elem, rd,
                       locker, pre, nwrites>>

\* __rec_sub_discard_row / _col: one turn of the loop, or the discard of
\* the internal page whose loop just ended.
SubDiscard(s) ==
    LET f == ev[s]
        top == Top(f.stk)
        kids == Children(top.parent)
        r == kids[top.i]
        cp == ref[r].page
        q == IF top.i > Len(kids) THEN top.parent ELSE cp
    IN  /\ f.pc = "sub_discard"
        /\ actor' = s
        /\ IF top.i > Len(kids) /\ Len(f.stk) = 1
           THEN /\ ev' = [ev EXCEPT ![s] = [f EXCEPT !.pc = "discard", !.stk = <<>>]]
                /\ UNCHANGED discards
           ELSE IF top.i <= Len(kids) /\ ref[r].state = "DISK"
           THEN /\ ev' = [ev EXCEPT ![s] = [f EXCEPT !.stk = Advance(@)]]
                /\ UNCHANGED discards
           ELSE IF top.i <= Len(kids) /\ cp = NULL
           THEN /\ ev' = [ev EXCEPT ![s] = [f EXCEPT !.pc = "crash", !.ret = "SIGSEGV"]]
                /\ UNCHANGED discards
           ELSE IF top.i <= Len(kids) /\ IsInternal(cp)
           THEN /\ ev' = [ev EXCEPT ![s] = [f EXCEPT !.stk = Push(@, cp)]]
                /\ UNCHANGED discards
           ELSE \E ok \in DiscardResults(q) :
                  IF ok
                  THEN /\ discards' = [discards EXCEPT ![q] = @ + 1]
                       /\ ev' = [ev EXCEPT ![s] =
                             [Discarded(f, q) EXCEPT
                                !.stk = IF top.i > Len(kids) THEN Advance(Pop(@))
                                        ELSE Advance(@)]]
                  ELSE /\ ev' = [ev EXCEPT ![s] = Return(f, "EIO")]
                       /\ UNCHANGED discards
        /\ UNCHANGED <<ref, pg, conn_hazard, cache_hazard, cache_hazard_elem, rd,
                       locker, pre, nwrites>>

\* The discard of the candidate itself, and the return of __wt_rec_evict.
DiscardPage(s) ==
    LET f == ev[s]
        q == f.page
    IN  /\ f.pc = "discard"
        /\ actor' = s
        /\ \E ok \in DiscardResults(q) :
              IF ok
              THEN /\ discards' = [discards EXCEPT ![q] = @ + 1]
                   /\ ev' = [ev EXCEPT ![s] = Return(Discarded(f, q), "OK")]
              ELSE /\ ev' = [ev EXCEPT ![s] = Return(f, "EIO")]
                   /\ UNCHANGED discards
        /\ UNCHANGED <<ref, pg, conn_hazard, cache_hazard, cache_hazard_elem, rd,
                       locker, pre, nwrites>>

\* ------------------------------------------------------- the sequential run

\* One session evicts one candidate; the hazard table does not change.
TopKinds == OffKinds \cup MemKinds

\* Scenarios that vary the tree: every candidate, its children of every
\* kind, with and without WT_REC_SINGLE, and no reader.
ShapeCands ==
    {Kind("MEM", f, FALSE) : f \in RecChoices \ {{"REC_SPLIT_MERGE"}}}
    \cup {Kind("MEM", {}, TRUE)}

ShapeScenarios ==
    UNION {{[c |-> c, k |-> k, fl |-> fl, h |-> NULL] :
               k \in KindMaps(c, ShapeCands, TopKinds, DeepKinds),
               fl \in {{}, {"WT_REC_SINGLE"}}} : c \in TreePages}

\* Scenarios that vary the call: the candidate of every kind (its slot
\* already LOCKED, FORCE_EVICT, any REC flag), every flag set, and a reader's
\* hazard on the candidate or on a child, over small subtrees.
CandKinds ==
    {Kind(st, f \cup g, m) : st \in {"MEM", "LOCKED"}, f \in RecChoices,
                             g \in {{}, {"FORCE_EVICT"}}, m \in BOOLEAN}

CallKinds == {Kind("DISK", {}, FALSE), Kind("MEM", {"REC_SPLIT"}, FALSE)}

CallScenarios ==
    UNION {{[c |-> c, k |-> k, fl |-> fl, h |-> h] :
               k \in KindMaps(c, CandKinds, CallKinds, CallKinds),
               fl \in SUBSET CallFlags,
               h \in {NULL} \cup {x \in {c} \cup Subtree(c) : Parent(x) \in {NULL, c}}} :
           c \in {1, 2, 3}}

Scenarios ==
    {sc \in ShapeScenarios \cup CallScenarios :
        sc.h # NULL => sc.k[sc.h].st \in {"MEM", "LOCKED"}}

Init ==
    \E sc \in Scenarios :
        /\ InitTree(sc.c, sc.k)
        /\ conn_hazard = [x \in Slots |-> IF x = 2 THEN sc.h ELSE NULL]
        /\ ev = [s \in Sessions |-> IF s = 1 THEN NewFrame(sc.c, sc.fl) ELSE IdleFrame]
        /\ rd = [x \in Readers |-> IdleReader]
        /\ pre = [s \in Sessions |-> Snapshot]

\* The review: the locks taken down the subtree and their release.
Review(s) ==
    \/ EvictEntry(s)
    \/ HazardLock(s)
    \/ HazardCopy(s)
    \/ HazardSort(s)
    \/ HazardSearch(s)
    \/ ReviewSlot(s)
    \/ ClearRoot(s)
    \/ ClearSlot(s)

\* The write, the parent update and the discards of a reviewed subtree.
Finish(s) ==
    \/ WritePage(s)
    \/ ParentUpdate(s)
    \/ Publish(s)
    \/ SubDiscard(s)
    \/ DiscardPage(s)

\* What only a split root and an unlocker off its track run.
Rare(s) ==
    \/ ClearAssert(s)
    \/ RootSplitWrite(s)
    \/ RootSplitDiscard(s)

Step(s) == Review(s) \/ Finish(s) \/ Rare(s)

Next == \E s \in Sessions : Step(s)

Spec == Init /\ [][Next]_vars

\* ------------------------------------------------------------------ readers

\* A reader of the tree, by the hazard protocol the specification gives:
\* observe the slot in MEM, publish a hazard on its page, look at the state
\* again, and enter the page or clear the hazard and start over.  A reader
\* starts from the root page and takes its hazards on the slots below it.
RdObserve(x) ==
    /\ rd[x].pc = "idle"
    /\ \E t \in TreeSlots \ {RootRef} :
          /\ ref[t].state = "MEM"
          /\ ref[t].page # NULL
          /\ rd' = [rd EXCEPT ![x] = [pc |-> "publish", ref |-> t, page |-> ref[t].page]]
    /\ UNCHANGED <<ref, pg, conn_hazard, cache_hazard, cache_hazard_elem, ev,
                   discards, locker, pre, nwrites, actor>>

RdPublish(x) ==
    /\ rd[x].pc = "publish"
    /\ conn_hazard' = [conn_hazard EXCEPT ![x] = rd[x].page]
    /\ rd' = [rd EXCEPT ![x].pc = "recheck"]
    /\ UNCHANGED <<ref, pg, cache_hazard, cache_hazard_elem, ev, discards, locker,
                   pre, nwrites, actor>>

RdRecheck(x) ==
    /\ rd[x].pc = "recheck"
    /\ IF ref[rd[x].ref].state = "MEM"
       THEN /\ rd' = [rd EXCEPT ![x].pc = "inside"]
            /\ UNCHANGED conn_hazard
       ELSE /\ rd' = [rd EXCEPT ![x] = IdleReader]
            /\ conn_hazard' = [conn_hazard EXCEPT ![x] = NULL]
    /\ UNCHANGED <<ref, pg, cache_hazard, cache_hazard_elem, ev, discards, locker,
                   pre, nwrites, actor>>

RdLeave(x) ==
    /\ rd[x].pc = "inside"
    /\ rd' = [rd EXCEPT ![x] = IdleReader]
    /\ conn_hazard' = [conn_hazard EXCEPT ![x] = NULL]
    /\ UNCHANGED <<ref, pg, cache_hazard, cache_hazard_elem, ev, discards, locker,
                   pre, nwrites, actor>>

Read(x) == RdObserve(x) \/ RdPublish(x) \/ RdRecheck(x) \/ RdLeave(x)

\* One session evicts an internal page that an earlier reconciliation left
\* clean with a replacement, and whose children are in memory and mergeable,
\* while the readers come and go: nothing is written, and the unlocker meets
\* only slots the review locked.
HazardKinds == {Kind("MEM", {"REC_SPLIT"}, FALSE)}

HazardScenarios ==
    {[c |-> 2, k |-> k, fl |-> fl] :
        k \in KindMaps(2, {Kind("MEM", {"REC_REPLACE"}, FALSE)}, HazardKinds, HazardKinds),
        fl \in {{}, {"WT_REC_WAIT"}}}

InitHazard ==
    \E sc \in HazardScenarios :
        /\ InitTree(sc.c, sc.k)
        /\ conn_hazard = [x \in Slots |-> NULL]
        /\ ev = [s \in Sessions |-> IF s = 1 THEN NewFrame(sc.c, sc.fl) ELSE IdleFrame]
        /\ rd = [x \in Readers |-> IdleReader]
        /\ pre = [s \in Sessions |-> Snapshot]

NextHazard ==
    \/ \E s \in Sessions : Review(s) \/ Finish(s)
    \/ \E x \in Readers : Read(x)

SpecHazard == InitHazard /\ [][NextHazard]_vars

\* ------------------------------------------------------------ two evictors

\* The session's next step reads its candidate page after another call's
\* __wt_page_out freed it: the read may fault.  (When it does not, the step
\* goes on with what the freed memory still holds: the session's own action.)
UseAfterFree(s) ==
    LET f == ev[s]
    IN  /\ f.pc \notin {"idle", "done", "crash"}
        /\ discards[f.page] > 0
        /\ actor' = s
        /\ ev' = [ev EXCEPT ![s] = [f EXCEPT !.pc = "crash", !.ret = "SIGSEGV"]]
        /\ UNCHANGED <<ref, pg, conn_hazard, cache_hazard, cache_hazard_elem, rd,
                       discards, locker, pre, nwrites>>

\* The pairs of candidates: disjoint, one below the other, and the same page.
ConcPairs == {<<4, 5>>, <<2, 3>>, <<2, 4>>, <<1, 2>>, <<2, 2>>}

ConcMenus ==
    <<{Kind("MEM", {}, m) : m \in BOOLEAN},
      {Kind("MEM", {"REC_SPLIT"}, FALSE), Kind("MEM", {}, FALSE)},
      {Kind("DISK", {}, FALSE), Kind("MEM", {}, FALSE)},
      {Kind("DISK", {}, FALSE), Kind("MEM", {"REC_SPLIT"}, FALSE), Kind("MEM", {}, FALSE)},
      {Kind("DISK", {}, FALSE), Kind("MEM", {"REC_SPLIT"}, FALSE)}>>

ConcScenarios ==
    {sc \in {[c |-> c, k |-> <<k1, k2, k3, k4, k5>>] :
                c \in ConcPairs, k1 \in ConcMenus[1], k2 \in ConcMenus[2],
                k3 \in ConcMenus[3], k4 \in ConcMenus[4], k5 \in ConcMenus[5]} :
        \A i \in 1 .. 2 : sc.k[sc.c[i]].st = "MEM"}

InitConc ==
    \E sc \in ConcScenarios :
        /\ InitTree(NULL, sc.k)
        /\ conn_hazard = [x \in Slots |-> NULL]
        /\ ev = [s \in Sessions |-> NewFrame(sc.c[s], {})]
        /\ rd = [x \in Readers |-> IdleReader]
        /\ pre = [s \in Sessions |-> Snapshot]

NextConc == Next \/ \E s \in Sessions : HazardAssert(s) \/ UseAfterFree(s)

SpecConc == InitConc /\ [][NextConc]_vars

\* ------------------------------------------------------------------ results

Done(s) == ev[s].pc = "done"

\* evict returned Ok.
Ok(s) == Done(s) /\ ev[s].ret = "OK"

\* evict returned because the review could not lock the subtree.
Busy(s) == Done(s) /\ ev[s].ret \in {"1", "WT_ERROR"}

\* evict returned an error of write_page or discard_page.
Failed(s) == Done(s) /\ ev[s].ret = "EIO"

Range(q) == {q[k] : k \in 1 .. Len(q)}

\* The slot is LOCKED by session s.
LockedBy(r, s) == ref[r].state = "LOCKED" /\ locker[r] = s

Cand(s) == ev[s].page

\* The pages the call of session s discarded.
Gone(s) == Range(ev[s].gone)

\* The candidate's REC flags when the call returns.
Rec(s) == pg[Cand(s)].flags \cap WT_PAGE_REC_MASK

\* The call began on a page that is not a merge-split page, with its slot
\* in MEM and without FORCE_EVICT: only the review touches the tree.
PlainCall(s) ==
    /\ pre[s].ref[Cand(s)].state = "MEM"
    /\ pre[s].pg[Cand(s)].flags \cap {"FORCE_EVICT", "REC_SPLIT_MERGE"} = {}

\* --------------------------------------------------------------------- C1

\* C1: after an evict that returned Ok or Busy, no slot of the tree is still
\* LOCKED by the calling session (a slot that the call itself locked).
C1_NoLockLeft ==
    \A s \in Sessions :
        (Ok(s) \/ Busy(s)) =>
            \A r \in TreeSlots :
                ~(LockedBy(r, s) /\ pre[s].ref[r].state # "LOCKED")

\* --------------------------------------------------------------------- C2

\* C2: when evict returns Busy the tree is as it was before the call: every
\* slot has the state, page pointer, address and size it had, and every page
\* has the flags it had.  (Stated for calls that start with the candidate's
\* slot in MEM and no FORCE_EVICT marker to clear.)
C2_BusyRestoresTree ==
    \A s \in Sessions :
        (Busy(s) /\ PlainCall(s)) =>
            /\ ref = pre[s].ref
            /\ \A p \in Pages : pg[p].flags = pre[s].pg[p].flags

\* --------------------------------------------------------------------- C3

\* Reader x is inside the page it entered through slot r.
Inside(x, r) ==
    rd[x].pc = "inside" /\ (rd[x].ref = r \/ rd[x].page = ref[r].page)

\* C3: from the moment __hazard_exclusive returns 0 for a slot and for as
\* long as the slot stays LOCKED, no reader that follows the hazard protocol
\* is inside the slot's page, whatever the interleaving.
C3_NoReaderInsideLocked ==
    \A s \in Sessions : \A r \in ev[s].held :
        ref[r].state = "LOCKED" => \A x \in Readers : ~Inside(x, r)

\* The session holds a slot while a reader, which saw the slot in MEM and
\* published its hazard after the session's scan, is about to look again.
C3_Witness ==
    \E s \in Sessions : \E r \in ev[s].held : \E x \in Readers :
        /\ ref[r].state = "LOCKED"
        /\ rd[x].pc = "recheck" /\ rd[x].ref = r
        /\ conn_hazard[x] = ref[r].page

\* --------------------------------------------------------------------- C4

\* C4 (its core): when write_page or discard_page fails after the review
\* succeeded, evict returns the error and no slot the session locked during
\* the review is left LOCKED.  (Stated for calls without WT_REC_SINGLE, the
\* calls that lock.)
C4_ErrorReleasesLocks ==
    \A s \in Sessions :
        (Failed(s) /\ ~LF_ISSET(s, "WT_REC_SINGLE")) =>
            \A r \in ev[s].took : ref[r].state # "LOCKED"

\* --------------------------------------------------------------------- C5

\* C5 (its core, for two calls on different candidates): two evictors never
\* both hold exclusive access to the same slot, and no page is discarded by
\* both; of two calls on overlapping subtrees at most one goes on to evict
\* the shared page.
C5_SharedPageHasOneEvictor ==
    \A s, t \in Sessions :
        (s # t /\ Cand(s) # Cand(t)) =>
            /\ ev[s].held \cap ev[t].held = {}
            /\ Gone(s) \cap Gone(t) = {}

\* --------------------------------------------------------------------- C6

\* C6: no step of a session changes the state of a slot that is LOCKED by a
\* different session (stated for two calls on different candidates).
C6_ForeignLockUntouched ==
    [][Cand(1) # Cand(2) =>
          \A r \in Refs :
              (ref[r].state = "LOCKED" /\ locker[r] \in Sessions /\ locker[r] # actor')
                  => (ref'[r].state = "LOCKED" /\ locker'[r] = locker[r])]_vars

\* --------------------------------------------------------------------- C7

\* The page above page q: its parent in the tree, and for a page the
\* reconciler split off the root, the root the call is evicting.
Above(s, q) == IF q \in TreePages THEN Parent(q) ELSE Cand(s)

\* C7: a merge-split page is never discarded by a call whose candidate it
\* is, and is discarded only in a call that discards the page above it too.
C7_SplitMergeGoesWithParent ==
    \A s \in Sessions :
        Done(s) =>
            \A q \in Gone(s) :
                "REC_SPLIT_MERGE" \in pre[s].pg[q].flags =>
                    q # Cand(s) /\ Above(s, q) \in Gone(s)

\* C7, on the runs where no write and no discard fails: the evict calls that
\* return Ok.
C7_WhenNothingFails ==
    \A s \in Sessions :
        Ok(s) =>
            \A q \in Gone(s) :
                "REC_SPLIT_MERGE" \in pre[s].pg[q].flags =>
                    q # Cand(s) /\ Above(s, q) \in Gone(s)

\* --------------------------------------------------------------------- C8

\* The call was made on a merge-split page and has returned.
Refused(s) == Done(s) /\ "REC_SPLIT_MERGE" \in pre[s].pg[Cand(s)].flags

\* Everything but the slots is as before the call, the candidate's read
\* generation apart; nothing was written or discarded.
OnlyReadGenBumped(s) ==
    /\ ev[s].ret = "OK"
    /\ pg = [pre[s].pg EXCEPT ![Cand(s)].read_gen = wt_cache_read_gen]
    /\ conn_hazard = pre[s].hazard
    /\ nwrites = 0
    /\ ev[s].gone = <<>>

\* C8 as claimed: evict on a merge-split page returns Ok and changes nothing
\* but the read generation; every slot, the page's own included, is as it
\* was.
C8_RefusalChangesNothing ==
    \A s \in Sessions :
        Refused(s) => OnlyReadGenBumped(s) /\ ref = pre[s].ref

\* C8 as amended: evict on a merge-split page returns Ok and changes nothing
\* but the read generation and the state of the page's own slot, which it
\* sets to MEM whatever it was.
C8_RefusalSetsSlotToMem ==
    \A s \in Sessions :
        Refused(s) =>
            /\ OnlyReadGenBumped(s)
            /\ ref = [pre[s].ref EXCEPT ![Cand(s)].state = "MEM"]

\* A refusal of a page whose slot was LOCKED when the call started.
C8_Witness ==
    \E s \in Sessions :
        /\ Refused(s)
        /\ pre[s].ref[Cand(s)].state = "LOCKED"
        /\ ev[s].flags = {"WT_REC_SINGLE"}

\* --------------------------------------------------------------------- C9

\* The call returned Ok and discarded its candidate.
Evicted(s) == Ok(s) /\ Cand(s) \in Gone(s)

\* The addresses the reconciler produced in this run.
WrittenAddrs == {30 + n : n \in 1 .. nwrites}

\* C9 as claimed: after an Ok that discarded the candidate, the parent slot
\* does not point to the candidate and its address is INVALID or one the
\* reconciler produced during the call.
C9_AddrIsFresh ==
    \A s \in Sessions :
        Evicted(s) =>
            /\ ref[Cand(s)].page # Cand(s)
            /\ ref[Cand(s)].addr \in {WT_ADDR_INVALID} \cup WrittenAddrs

\* The page whose Replace outcome ended the root split's loop.
LastRoot(s) == CHOOSE q \in Gone(s) \cap FreshPages : "REC_REPLACE" \in pg[q].flags

\* C9 as amended: the parent slot does not point to the candidate, and its
\* address is INVALID (an empty root), the address of the Replace outcome
\* stamped on the page (by this call's write or by an earlier one) or on the
\* last page of the root split, or, for a clean page and for a split below
\* the root, the address it had before the call.
C9_AddrFollowsOutcome ==
    \A s \in Sessions :
        Evicted(s) =>
            /\ ref[Cand(s)].page # Cand(s)
            /\ ref[Cand(s)].addr =
                  IF Rec(s) = {"REC_EMPTY"} THEN WT_ADDR_INVALID
                  ELSE IF Rec(s) = {"REC_REPLACE"} THEN pg[Cand(s)].mod.addr
                  ELSE IF Rec(s) = {"REC_SPLIT"} /\ WT_PAGE_IS_ROOT(Cand(s))
                       THEN pg[LastRoot(s)].mod.addr
                  ELSE pre[s].ref[Cand(s)].addr

\* A clean page was evicted: its slot keeps the address it had.
C9_Witness ==
    \E s \in Sessions :
        /\ Evicted(s) /\ Rec(s) = {}
        /\ ref[Cand(s)].addr = pre[s].ref[Cand(s)].addr
        /\ ref[Cand(s)].addr \notin WrittenAddrs

\* -------------------------------------------------------------------- C10

\* C10: after a successful evict the parent slot is what the outcome table
\* says, and the candidate was discarded exactly once.
C10_OutcomeTable ==
    \A s \in Sessions :
        Evicted(s) =>
            LET c == Cand(s)
                old == pre[s].ref[c]
                m == pg[c].mod
            IN  /\ discards[c] = 1
                /\ Len(SelectSeq(ev[s].gone, LAMBDA q : q = c)) = 1
                /\ Rec(s) = {} =>
                      ref[c] = [old EXCEPT !.page = NULL, !.state = "DISK"]
                /\ Rec(s) = {"REC_REPLACE"} =>
                      ref[c] = [state |-> "DISK", page |-> NULL,
                                addr |-> m.addr, size |-> m.size]
                /\ (Rec(s) = {"REC_SPLIT"} /\ ~WT_PAGE_IS_ROOT(c)) =>
                      ref[c] = [old EXCEPT !.page = m.split, !.state = "MEM"]
                /\ (Rec(s) = {"REC_EMPTY"} /\ WT_PAGE_IS_ROOT(c)) =>
                      ref[c] = [old EXCEPT !.addr = WT_ADDR_INVALID, !.page = NULL,
                                           !.state = "DISK"]

\* A dirty page below the root was written, split, and evicted.
C10_Witness ==
    \E s \in Sessions :
        /\ Evicted(s) /\ Rec(s) = {"REC_SPLIT"} /\ ~WT_PAGE_IS_ROOT(Cand(s))
        /\ pre[s].pg[Cand(s)].modified
        /\ ref[Cand(s)].state = "MEM"
        /\ ref[Cand(s)].page = pg[Cand(s)].mod.split

\* -------------------------------------------------------------------- C11

\* The call ended in the abort of an empty page below the root: line 156.
EmptyAbort(s) ==
    /\ Ok(s) /\ Rec(s) = {"REC_EMPTY"} /\ ~WT_PAGE_IS_ROOT(Cand(s))
    /\ ~IsSplitMerge(Cand(s))

RECURSIVE Chain(_)
Chain(q) == IF q = NULL THEN <<>> ELSE <<q>> \o Chain(pg[q].mod.split)

\* The call evicted a root that reconciled to Split.
RootSplitDone(s) ==
    Ok(s) /\ WT_PAGE_IS_ROOT(Cand(s)) /\ Rec(s) = {"REC_SPLIT"}

\* C12: after an Ok eviction of a root that split, the collapse loop having
\* seen Split N more times and then Replace, the root slot is DISK with a
\* null page and holds the address and size of that Replace, and the
\* original root and every page of the chain were discarded exactly once.
C12_RootSplitCollapses ==
    \A s \in Sessions :
        RootSplitDone(s) =>
            LET ch == Chain(pg[Cand(s)].mod.split)
                last == ch[Len(ch)]
            IN  /\ Len(ch) = ev[s].nsplit + 1
                /\ pg[last].flags \cap WT_PAGE_REC_MASK = {"REC_REPLACE"}
                /\ ref[RootRef] = [state |-> "DISK", page |-> NULL,
                                   addr |-> pg[last].mod.addr,
                                   size |-> pg[last].mod.size]
                /\ ref[RootRef].addr # pre[s].ref[RootRef].addr
                /\ \A q \in Range(ch) \cup {Cand(s)} :
                      /\ discards[q] = 1
                      /\ Cardinality({k \in 1 .. Len(ev[s].gone) :
                                         ev[s].gone[k] = q}) = 1

C12_Witness ==
    \E s \in Sessions :
        /\ RootSplitDone(s) /\ ev[s].nsplit = MaxSplit
        /\ ref[RootRef].state = "DISK" /\ ref[RootRef].page = NULL
        /\ Len(ev[s].gone) >= MaxSplit + 2

\* -------------------------------------------------------------------- C13

\* The session's thread keeps running: a step that stays possible is taken.
SpecFair == Spec /\ WF_vars(Next)

\* The session is inside the loop of __rec_root_split.
InLoop(s) == ev[s].pc \in {"root_split", "root_discard"}

\* The loop ended after a swap whose address and size are the root's.
Replaced(s) ==
    /\ ev[s].pc \in {"publish", "done"} /\ WT_PAGE_IS_ROOT(Cand(s))
    /\ ev[s].next = NULL /\ ev[s].cpage # NULL
    /\ ref[RootRef].page = NULL
    /\ ref[RootRef].addr = pg[ev[s].cpage].mod.addr
    /\ ref[RootRef].size = pg[ev[s].cpage].mod.size

\* The loop ended at line 250: the write failed, or (line 262) its outcome
\* was neither a swap nor a split.
WriteFailed(s) ==
    /\ Done(s) /\ ev[s].next # NULL
    /\ \/ ev[s].ret = "EIO" /\ pg[ev[s].next].modified
       \/ ev[s].ret = "ILLEGAL_VALUE"

\* The loop ended at line 265: the discard of the written page failed.
DiscardFailed(s) ==
    /\ Done(s) /\ ev[s].ret = "EIO" /\ ev[s].cpage # NULL
    /\ discards[ev[s].cpage] = 0
    /\ "REC_SPLIT" \in pg[ev[s].cpage].flags

\* The loop starts a turn only from the parent update or after a split.
TurnAfterSplit ==
    \A s \in Sessions :
        (ev[s].pc # "root_split" /\ ev'[s].pc = "root_split") =>
            \/ ev[s].pc = "update"
            \/ /\ ev[s].pc = "root_discard"
               /\ "REC_SPLIT" \in pg[ev[s].cpage].flags

\* The page of the coming turn was not discarded before.
TurnOnNewPage ==
    \A s \in Sessions :
        ev[s].pc = "root_split" =>
            /\ discards[ev[s].next] = 0
            /\ ev[s].next \notin Gone(s)

LiveCands ==
    {Kind("MEM", {"REC_REPLACE"} \cup g, FALSE) : g \in {{}, {"FORCE_EVICT"}}}

LiveMap(ck) ==
    <<Kind("MEM", {}, FALSE), ck, Kind("DISK", {}, FALSE),
      Kind("MEM", {"REC_SPLIT"}, FALSE), Kind("MEM", {"REC_SPLIT"}, FALSE)>>

LiveScenarios ==
    {sc \in {[c |-> 2, k |-> LiveMap(ck), fl |-> fl] :
                ck \in LiveCands, fl \in {{}, {"WT_REC_WAIT"}}} :
        "FORCE_EVICT" \in sc.k[2].fl => sc.fl = {}}

\* The readers that run beside the evictor.
MaxLiveReaders == 1

LiveReaders == 1 .. MaxLiveReaders

InitLive ==
    \E sc \in LiveScenarios :
        /\ InitTree(sc.c, sc.k)
        /\ conn_hazard = [x \in Slots |-> NULL]
        /\ ev = [s \in Sessions |-> IF s = 1 THEN NewFrame(sc.c, sc.fl) ELSE IdleFrame]
        /\ rd = [x \in Readers |-> IdleReader]
        /\ pre = [s \in Sessions |-> Snapshot]

\* Every thread keeps running: the evictor takes its next step, and a reader
\* that published a hazard looks again, and one inside a page leaves it.
NextLive ==
    \/ \E s \in Sessions : Review(s) \/ Finish(s)
    \/ \E x \in LiveReaders : Read(x)

SpecLive ==
    /\ InitLive /\ [][NextLive]_vars
    /\ WF_vars(\E s \in Sessions : Review(s) \/ Finish(s))
    /\ \A x \in LiveReaders : WF_vars(RdRecheck(x) \/ RdLeave(x))

\* The call is forced: WT_REC_WAIT was passed, or set at line 67 for a page
\* that carried FORCE_EVICT.
Forced(s) ==
    \/ "WT_REC_WAIT" \in ev[s].flags
    \/ ev[s].pc = "entry" /\ "FORCE_EVICT" \in pg[Cand(s)].flags

\* The session is inside __hazard_exclusive for slot r, after its store.
Acquiring(s, r) ==
    ev[s].pc \in {"hx_copy", "hx_search"} /\ ev[s].ref = r

\* A reader's hazard slot holds the candidate of session s.
HazardOnCand(s) == \E x \in Readers : conn_hazard[x] = Cand(s)

\* The acquirer found the candidate in its copy and goes round again.
Spins(s) ==
    /\ Acquiring(s, ParentRef(Cand(s))) /\ ev[s].pc = "hx_search"
    /\ bsearch(Cand(s), cache_hazard, 0, cache_hazard_elem)

\* The candidate's slot was acquired and the eviction went on.
Proceeds(s) == ParentRef(Cand(s)) \in ev[s].took

\* C14: a forced acquirer whose candidate a reader holds a hazard on never
\* returns Busy for the candidate, keeps the slot LOCKED while it spins, and
\* once the readers clear their slots acquires the candidate and goes on.
C14_ForcedAcquireWaits ==
    /\ [](\A s \in Sessions :
            /\ (Forced(s) /\ Busy(s)) => Proceeds(s)
            /\ (Forced(s) /\ Acquiring(s, ParentRef(Cand(s)))) =>
                   LockedBy(ParentRef(Cand(s)), s))
    /\ \A s \in Sessions :
          (Forced(s) /\ ev[s].pc = "entry") ~> Proceeds(s)
    /\ \A s \in Sessions : (Forced(s) /\ Spins(s)) ~> Proceeds(s)

C14_Witness ==
    \E s \in Sessions :
        /\ Forced(s) /\ Spins(s) /\ HazardOnCand(s)
        /\ "FORCE_EVICT" \in pre[s].pg[Cand(s)].flags
        /\ \E x \in Readers : rd[x].pc = "inside" /\ rd[x].page = Cand(s)

\* -------------------------------------------------------------------- C15

\* The session is inside __hazard_exclusive, for the candidate or a child.
InAcquire(s) == ev[s].pc \in {"hx_lock", "hx_copy", "hx_search"}

\* A step of a call that is not forced never goes from the search of a copy
\* back to a new copy.
OneSnapshot ==
    \A s \in Sessions :
        (~Forced(s) /\ ev[s].pc = "hx_search") => ev'[s].pc # "hx_copy"

\* A thread that has something to do can do it: the evictor until its call
\* returned, a reader between its first look at a slot and its leaving.
NoThreadStuck ==
    /\ \A s \in Sessions :
          ev[s].pc \notin {"idle", "done"} => ENABLED (Review(s) \/ Finish(s))
    /\ \A x \in LiveReaders : rd[x].pc # "idle" => ENABLED Read(x)

ReviewOk(s) == ev[s].pc = "write"

\* __rec_review returned 1 or WT_ERROR.
ReviewBusy(s) == ev[s].ret \in {"1", "WT_ERROR"}

\* __hazard_exclusive finds no hazard on page p (it is not called at all
\* with WT_REC_SINGLE).
Acquirable(s, p) ==
    \/ LF_ISSET(s, "WT_REC_SINGLE")
    \/ \A x \in Slots : pre[s].hazard[x] # p

\* Every slot of page p, and of the internal pages below it that the walk
\* enters, was on disk or held a page that passes the careful test and has
\* no hazard on it when the call began.
RECURSIVE Reviewable(_, _)
Reviewable(s, p) ==
    \A k \in 1 .. Len(Children(p)) :
        LET r == Children(p)[k]
            cp == pre[s].ref[r].page
        IN  \/ pre[s].ref[r].state = "DISK"
            \/ /\ pre[s].ref[r].state = "MEM"
               /\ \/ "REC_SPLIT_MERGE" \in pg[cp].flags
                  \/ /\ pg[cp].flags \cap {"REC_SPLIT", "REC_EMPTY"} # {}
                     /\ ~pg[cp].modified
               /\ Acquirable(s, cp)
               /\ IsInternal(cp) => Reviewable(s, cp)

\* The slots below page p that held a page the walk reaches.
RECURSIVE MemBelow(_, _)
MemBelow(s, p) ==
    UNION {IF pre[s].ref[Children(p)[k]].state # "MEM" THEN {}
           ELSE {Children(p)[k]} \cup
                IF IsInternal(pre[s].ref[Children(p)[k]].page)
                THEN MemBelow(s, pre[s].ref[Children(p)[k]].page) ELSE {} :
           k \in 1 .. Len(Children(p))}

ReviewOkIff(s) ==
    /\ ReviewOk(s) => Acquirable(s, Cand(s)) /\ Reviewable(s, Cand(s))
    /\ ReviewBusy(s) => ~(Acquirable(s, Cand(s)) /\ Reviewable(s, Cand(s)))

\* C16 as claimed: review returns Ok exactly when the candidate and every
\* in-memory child the walk meets could be acquired and passes the careful
\* test, and then the candidate's slot and the slot of every in-memory
\* descendant are LOCKED.
C16_ReviewLocksSubtree ==
    \A s \in Sessions :
        /\ ReviewOkIff(s)
        /\ ReviewOk(s) =>
              \A r \in {ParentRef(Cand(s))} \cup MemBelow(s, Cand(s)) :
                  LockedBy(r, s)

\* C16 as amended: the slots are LOCKED unless the call passed
\* WT_REC_SINGLE, and then every slot of the subtree is as it was.
C16_ReviewLocksUnlessSingle ==
    \A s \in Sessions :
        /\ ReviewOkIff(s)
        /\ ReviewOk(s) =>
              IF LF_ISSET(s, "WT_REC_SINGLE")
              THEN \A r \in Refs : ref[r] = pre[s].ref[r]
              ELSE \A r \in {ParentRef(Cand(s))} \cup MemBelow(s, Cand(s)) :
                      LockedBy(r, s)

C16_Witness ==
    \E s \in Sessions :
        /\ ReviewOk(s) /\ ~LF_ISSET(s, "WT_REC_SINGLE")
        /\ Cardinality(MemBelow(s, Cand(s))) >= 2
        /\ \E r \in MemBelow(s, Cand(s)) : wt_page_is_modified(ref[r].page)

\* -------------------------------------------------------------------- C17

\* The pages below page p from its slot k on, in the order of the walk.
RECURSIVE WalkOrder(_, _)
WalkOrder(p, k) ==
    IF k > Len(Children(p)) THEN <<>>
    ELSE <<Children(p)[k]>> \o WalkOrder(Children(p)[k], 1) \o WalkOrder(p, k + 1)

\* The place of page q in the walk of the subtree of candidate c.
Place(c, q) ==
    LET w == <<c>> \o WalkOrder(c, 1)
    IN  CHOOSE i \in 1 .. Len(w) : w[i] = q

\* The call is inside __rec_review, past the acquisition of the candidate
\* and up to the call of the unlocker, without WT_REC_SINGLE.
InReview(s) ==
    /\ \/ ev[s].pc \in {"walk", "hx_lock", "hx_copy", "hx_search"}
       \/ ev[s].pc = "clear_root" /\ ReviewBusy(s)
    /\ ~LF_ISSET(s, "WT_REC_SINGLE")
    /\ ParentRef(Cand(s)) \in ev[s].took

\* C17: during review the watermark names a page whose slot the session
\* holds LOCKED, and every slot the session acquired is at or before the
\* watermark in the order of the walk, also when the unlocker is called.
C17_WatermarkCoversLocks ==
    \A s \in Sessions :
        InReview(s) =>
            /\ ev[s].last_page # NULL
            /\ LockedBy(ParentRef(ev[s].last_page), s)
            /\ \A r \in ev[s].held :
                  Place(Cand(s), r) <= Place(Cand(s), ev[s].last_page)

\* -------------------------------------------------------------------- C18

\* C18: every slot the unlocker is about to visit is one the session
\* acquired and holds LOCKED (so its assertion does not fail), not a slot
\* that was on disk when the call began or that the review never reached.
C18_UnlockerVisitsLocked ==
    \A s \in Sessions :
        LET t == ClearTarget(ev[s])
        IN  /\ ev[s].ret # "ABORT"
            /\ t # NULL =>
                  /\ LockedBy(t, s)
                  /\ t \in ev[s].held
                  /\ pre[s].ref[t].state # "DISK"

\* -------------------------------------------------------------------- C19

\* The call stored the new state of the candidate's slot.
Stored(s) == ev[s].pub # "NONE" /\ ev[s].pc # "publish"

\* The call wrote the slot's fields and is about to store the state.
Storing(s) == ev[s].pc = "publish"

\* The slot of the candidate holds what the outcome on the page asks for.
FieldsWritten(s) ==
    LET c == Cand(s)
        r == ParentRef(c)
        m == pg[c].mod
    IN  /\ ref[r].page # c
        /\ Rec(s) = {} =>
              /\ ref[r].page = NULL
              /\ ref[r].addr = pre[s].ref[r].addr /\ ref[r].size = pre[s].ref[r].size
        /\ Rec(s) = {"REC_EMPTY"} =>
              ref[r].page = NULL /\ ref[r].addr = WT_ADDR_INVALID
        /\ Rec(s) = {"REC_REPLACE"} =>
              ref[r].page = NULL /\ ref[r].addr = m.addr /\ ref[r].size = m.size
        /\ (Rec(s) = {"REC_SPLIT"} /\ ~WT_PAGE_IS_ROOT(c)) => ref[r].page = m.split
        /\ (Rec(s) = {"REC_SPLIT"} /\ WT_PAGE_IS_ROOT(c)) =>
              LET ch == Chain(m.split)
              IN  /\ ref[r].page = NULL
                  /\ ref[r].addr = pg[ch[Len(ch)]].mod.addr
                  /\ ref[r].size = pg[ch[Len(ch)]].mod.size

\* A step that changes the state of the slot during the update is the store
\* of the new state and changes nothing else of the slot; no step changes
\* the slot after it.
StateStoredLast ==
    \A s \in Sessions :
        LET r == ParentRef(Cand(s))
        IN  /\ (Storing(s) /\ ref'[r] # ref[r]) =>
                  /\ ref' = [ref EXCEPT ![r].state = ev[s].pub]
                  /\ Stored(s)'
            /\ Stored(s) => ref'[r] = ref[r]

\* C19: in every update of the parent slot the fields are written before
\* the state, the store of the state is the last write to the slot, and the
\* new state is never in the slot together with the fields of before.
C19_PublishAfterFields ==
    /\ [](\A s \in Sessions :
            /\ (Storing(s) \/ Stored(s)) => FieldsWritten(s)
            /\ Stored(s) => ref[ParentRef(Cand(s))].state = ev[s].pub
            /\ (Storing(s) /\ ~LF_ISSET(s, "WT_REC_SINGLE")) =>
                   LockedBy(ParentRef(Cand(s)), s))
    /\ [][StateStoredLast]_vars

C19_Witness ==
    \E s \in Sessions :
        /\ Stored(s) /\ ~LF_ISSET(s, "WT_REC_SINGLE")
        /\ Rec(s) = {"REC_REPLACE"} /\ pre[s].pg[Cand(s)].modified
        /\ ref[ParentRef(Cand(s))].state = "DISK"
        /\ ref[ParentRef(Cand(s))].addr \in WrittenAddrs
        /\ ev[s].pc = "sub_discard"

\* -------------------------------------------------------------------- C20

\* Two sessions evict pages of disjoint subtrees, page 2 with its mergeable
\* children and the leaf page 3, while the hazard table holds what readers
\* left in it; both sessions copy it into the one array of the cache.
SharedTables == [Slots -> {NULL, 3, 4, 5}]

SharedMap ==
    <<Kind("MEM", {}, FALSE), Kind("MEM", {"REC_REPLACE"}, FALSE),
      Kind("MEM", {}, FALSE),
      Kind("MEM", {"REC_SPLIT"}, FALSE), Kind("MEM", {"REC_SPLIT"}, FALSE)>>

InitShared ==
    \E h \in SharedTables :
        /\ InitTree(NULL, SharedMap)
        /\ conn_hazard = h
        /\ ev = [s \in Sessions |-> NewFrame(IF s = 1 THEN 2 ELSE 3, {})]
        /\ rd = [x \in Readers |-> IdleReader]
        /\ pre = [s \in Sessions |-> Snapshot]

NextShared == \E s \in Sessions : Review(s) \/ Finish(s)

SpecShared == InitShared /\ [][NextShared]_vars

\* The non-null entries of conn->hazard the session's scan has copied.
Copied(s) == {conn_hazard[x] : x \in 1 .. ev[s].j} \ {NULL}

\* What the lookup of the session reports for the page it wants.
Found(s) == bsearch(ref[ev[s].ref].page, cache_hazard, 0, cache_hazard_elem)

\* C20: the copy a session searches is its own: when it looks the page up,
\* the lookup finds it exactly when the page is among the non-null entries
\* the session's own scan copied, whatever other sessions do meanwhile.
C20_LookupSeesOwnCopy ==
    \A s \in Sessions :
        ev[s].pc = "hx_search" =>
            (Found(s) <=> ref[ev[s].ref].page \in Copied(s))

\* -------------------------------------------------------------------- C21

\* The pages the slots below the candidate held when the call began and
\* that the review accepts for merging.
MergedPages(s) == {pre[s].ref[r].page : r \in MemBelow(s, Cand(s))}

\* No slot in MEM or LOCKED points to a page the call discarded (the slots
\* of a discarded page went with it).
NoSlotOnGonePage(s) ==
    \A r \in Refs :
        (ref[r].state \in {"MEM", "LOCKED"} /\ Parent(r) \notin Gone(s)) =>
            ref[r].page \notin Gone(s)

\* No page was discarded twice.
GoneOnce(s) ==
    /\ \A q \in Gone(s) : discards[q] = 1
    /\ Cardinality(Gone(s)) = Len(ev[s].gone)

\* C21: after an evict call, whatever it returned, no slot in MEM or LOCKED
\* points to a page the call discarded, no page was discarded twice, and the
\* pages discarded besides the candidate (and the pages of a root split)
\* are exactly the in-memory descendants the review locked for merging.
C21_DiscardsMergedPages ==
    \A s \in Sessions :
        Done(s) =>
            /\ NoSlotOnGonePage(s)
            /\ GoneOnce(s)
            /\ Gone(s) \ ({Cand(s)} \cup FreshPages) \subseteq MergedPages(s)
            /\ Cand(s) \in Gone(s) => MergedPages(s) \subseteq Gone(s)

\* -------------------------------------------------------------------- C22

\* The slots whose state differs from the state they had when the call began.
Restated(s) == {r \in Refs : ref[r].state # pre[s].ref[r].state}

\* The call is in __rec_review or __rec_sub_excl_clear, or between them.
ReviewOrRelease(s) ==
    ev[s].pc \in {"walk", "write", "clear_root", "clear"}

\* C22: a call with WT_REC_SINGLE never enters __hazard_exclusive, its
\* review and release change no slot's state, a call that returns Busy or an
\* error leaves every slot's state as it was, and a call that returns Ok
\* changes at most the state of the candidate's slot.
C22_SingleTouchesNoState ==
    \A s \in Sessions :
        (ev[s].pc # "idle" /\ LF_ISSET(s, "WT_REC_SINGLE")) =>
            /\ ~InAcquire(s)
            /\ ReviewOrRelease(s) => Restated(s) = {}
            /\ (Done(s) /\ ~Ok(s)) => Restated(s) = {}
            /\ Ok(s) => Restated(s) \subseteq {ParentRef(Cand(s))}

====
